---- MODULE Spec2Model ----
(***************************************************************************)
(* Model of docs/scripts/generate_favicons.py: the shield-V shape field,   *)
(* the colour compositor, the supersampling rasterizer and the PNG and ICO *)
(* encoders.                                                               *)
(*                                                                         *)
(* Numbers.  The geometry of the script decides membership by comparing    *)
(* floats.  Here every geometric quantity is an exact real of the form     *)
(* p + q*sqrt(D) with rational p, q, D (a "surd"), so a comparison is      *)
(* decided exactly; rationals are sign/numerator/denominator over          *)
(* arbitrary-size naturals (TLC's own integers are 32 bits wide).  Colour  *)
(* channels are kept in fixed point with three decimals.                   *)
(***************************************************************************)
EXTENDS Integers, Sequences, FiniteSets, TLC

(***************************************************************************)
(* Arbitrary-size naturals: little-endian sequences of limbs, no leading   *)
(* zero limb, zero is <<>>.                                                *)
(***************************************************************************)
Base == 10000

RECURSIVE BNorm(_)
BNorm(a) ==
  IF a = <<>> THEN <<>>
  ELSE IF a[Len(a)] = 0 THEN BNorm(SubSeq(a, 1, Len(a) - 1)) ELSE a

RECURSIVE BFromInt(_)
BFromInt(n) == IF n = 0 THEN <<>> ELSE <<n % Base>> \o BFromInt(n \div Base)

BLimb(a, i) == IF i <= Len(a) THEN a[i] ELSE 0

RECURSIVE BCarry(_, _, _)
BCarry(cols, i, c) ==
  IF i > Len(cols)
  THEN BFromInt(c)
  ELSE <<(cols[i] + c) % Base>> \o BCarry(cols, i + 1, (cols[i] + c) \div Base)

BMaxLen(a, b) == IF Len(a) >= Len(b) THEN Len(a) ELSE Len(b)

BAdd(a, b) == BCarry([i \in 1..BMaxLen(a, b) |-> BLimb(a, i) + BLimb(b, i)], 1, 0)

RECURSIVE BCmpFrom(_, _, _)
BCmpFrom(a, b, i) ==
  IF i = 0 THEN 0
  ELSE IF a[i] < b[i] THEN -1
  ELSE IF a[i] > b[i] THEN 1
  ELSE BCmpFrom(a, b, i - 1)

BCmp(a, b) ==
  IF Len(a) < Len(b) THEN -1
  ELSE IF Len(a) > Len(b) THEN 1
  ELSE BCmpFrom(a, b, Len(a))

\* a - b for a >= b
RECURSIVE BBorrow(_, _, _, _)
BBorrow(a, b, i, br) ==
  IF i > Len(a) THEN <<>>
  ELSE IF a[i] - BLimb(b, i) - br < 0
  THEN <<a[i] - BLimb(b, i) - br + Base>> \o BBorrow(a, b, i + 1, 1)
  ELSE <<a[i] - BLimb(b, i) - br>> \o BBorrow(a, b, i + 1, 0)

BSub(a, b) == BNorm(BBorrow(a, b, 1, 0))

RECURSIVE BColumn(_, _, _, _)
BColumn(a, b, k, i) ==
  IF i > Len(a) \/ i > k THEN 0
  ELSE (IF k - i + 1 <= Len(b) THEN a[i] * b[k - i + 1] ELSE 0) + BColumn(a, b, k, i + 1)

BMul(a, b) ==
  IF a = <<>> \/ b = <<>> THEN <<>>
  ELSE BNorm(BCarry([k \in 1..(Len(a) + Len(b) - 1) |-> BColumn(a, b, k, 1)], 1, 0))

(***************************************************************************)
(* Rationals [s, n, d]: sign s in {-1, 0, 1}, numerator n and denominator  *)
(* d naturals, d > 0.  Not kept in lowest terms.                           *)
(***************************************************************************)
BOne == <<1>>

Q(n, d) ==
  [s |-> IF n = 0 THEN 0 ELSE IF n < 0 THEN -1 ELSE 1,
   n |-> BFromInt(IF n < 0 THEN -n ELSE n),
   d |-> BFromInt(d)]

QInt(n) == Q(n, 1)

QNeg(a) == [a EXCEPT !.s = -a.s]

QAbs(a) == [a EXCEPT !.s = IF a.s = 0 THEN 0 ELSE 1]

\* s1*m1 + s2*m2 over d for opposite signs, c the comparison of m1 with m2
QDiff(s1, m1, s2, m2, d, c) ==
  IF c = 0 THEN [s |-> 0, n |-> <<>>, d |-> BOne]
  ELSE IF c > 0 THEN [s |-> s1, n |-> BSub(m1, m2), d |-> d]
  ELSE [s |-> s2, n |-> BSub(m2, m1), d |-> d]

\* sign-magnitude sum of s1*m1 + s2*m2 over the common denominator d
QSum(s1, m1, s2, m2, d) ==
  IF s1 = 0 THEN [s |-> s2, n |-> m2, d |-> d]
  ELSE IF s2 = 0 THEN [s |-> s1, n |-> m1, d |-> d]
  ELSE IF s1 = s2 THEN [s |-> s1, n |-> BAdd(m1, m2), d |-> d]
  ELSE QDiff(s1, m1, s2, m2, d, BCmp(m1, m2))

QAdd(a, b) ==
  IF a.d = b.d THEN QSum(a.s, a.n, b.s, b.n, a.d)
  ELSE QSum(a.s, BMul(a.n, b.d), b.s, BMul(b.n, a.d), BMul(a.d, b.d))

QSub(a, b) == QAdd(a, QNeg(b))

QMul(a, b) ==
  IF a.s = 0 \/ b.s = 0 THEN [s |-> 0, n |-> <<>>, d |-> BOne]
  ELSE [s |-> a.s * b.s, n |-> BMul(a.n, b.n), d |-> BMul(a.d, b.d)]

\* a / b for b # 0
QDiv(a, b) ==
  IF a.s = 0 THEN [s |-> 0, n |-> <<>>, d |-> BOne]
  ELSE [s |-> a.s * b.s, n |-> BMul(a.n, b.d), d |-> BMul(a.d, b.n)]

QSign(a) == a.s

QCmp(a, b) == QSign(QSub(a, b))

QLt(a, b) == QCmp(a, b) < 0

QLe(a, b) == QCmp(a, b) <= 0

QEq(a, b) == QCmp(a, b) = 0

QZero == QInt(0)

(***************************************************************************)
(* Surds [p, q, D]: the real p + q*sqrt(D), D >= 0.  A float the script    *)
(* computes is one of these: a rational (q = 0) or a value built from one  *)
(* math.sqrt.                                                              *)
(***************************************************************************)
R(a) == [p |-> a, q |-> QZero, D |-> QZero]

Num(n) == R(QInt(n))

\* a decimal literal: n / 10^k written as n over d
Dec(n, d) == R(Q(n, d))

\* math.sqrt of a rational
SqrtQ(v) == [p |-> QZero, q |-> QInt(1), D |-> v]

\* the radicand two operands share (one of them may be rational)
SRad(a, b) == IF a.q.s = 0 THEN b.D ELSE a.D

SAdd(a, b) == [p |-> QAdd(a.p, b.p), q |-> QAdd(a.q, b.q), D |-> SRad(a, b)]

SNeg(a) == [p |-> QNeg(a.p), q |-> QNeg(a.q), D |-> a.D]

SSub(a, b) == SAdd(a, SNeg(b))

SMul(a, b) ==
  [p |-> QAdd(QMul(a.p, b.p), QMul(QMul(a.q, b.q), SRad(a, b))),
   q |-> QAdd(QMul(a.p, b.q), QMul(a.q, b.p)),
   D |-> SRad(a, b)]

\* a / b for a rational b # 0
SDiv(a, b) == [p |-> QDiv(a.p, b.p), q |-> QDiv(a.q, b.p), D |-> a.D]

\* sign of p + q*sqrt(D), sq the sign of q*sqrt(D)
SSignWith(a, sq) ==
  IF sq = 0 THEN a.p.s
  ELSE IF a.p.s = 0 THEN sq
  ELSE IF a.p.s = sq THEN sq
  ELSE \* opposite signs: compare q^2 * D with p^2
       sq * QCmp(QMul(QMul(a.q, a.q), a.D), QMul(a.p, a.p))

SSign(a) == SSignWith(a, IF a.D.s = 0 THEN 0 ELSE a.q.s)

SCmp(a, b) ==
  IF a.q.s = 0 \/ b.q.s = 0 \/ a.D = b.D
  THEN SSign(SSub(a, b))
  ELSE \* two square roots: compare the squares
       QCmp(QMul(QMul(a.q, a.q), a.D), QMul(QMul(b.q, b.q), b.D))

SLt(a, b) == SCmp(a, b) < 0

SLe(a, b) == SCmp(a, b) <= 0

SEq(a, b) == SCmp(a, b) = 0

SAbs(a) == IF SSign(a) < 0 THEN SNeg(a) ELSE a

SMin(a, b) == IF SLe(a, b) THEN a ELSE b

(***************************************************************************)
(* Geometry primitives.                                                    *)
(***************************************************************************)
clamp(v, lo, hi) == IF SLt(v, lo) THEN lo ELSE IF SLt(hi, v) THEN hi ELSE v

\* math.sqrt(dx * dx + dy * dy)
hypot(dx, dy) == SqrtQ(SAdd(SMul(dx, dx), SMul(dy, dy)).p)

\* dist_to_segment from "cx = ax + t * abx" on
dist_at(px, py, ax, ay, abx, aby, t) ==
  hypot(SSub(px, SAdd(ax, SMul(t, abx))), SSub(py, SAdd(ay, SMul(t, aby))))

\* dist_to_segment from "if ab2 == 0" on
dist_from(px, py, ax, ay, abx, aby, apx, apy, ab2) ==
  IF SSign(ab2) = 0
  THEN hypot(SSub(px, ax), SSub(py, ay))
  ELSE dist_at(px, py, ax, ay, abx, aby,
               clamp(SDiv(SAdd(SMul(apx, abx), SMul(apy, aby)), ab2), Num(0), Num(1)))

\* dist_to_segment from "ab2 = abx * abx + aby * aby" on
dist_along(px, py, ax, ay, abx, aby, apx, apy) ==
  dist_from(px, py, ax, ay, abx, aby, apx, apy, SAdd(SMul(abx, abx), SMul(aby, aby)))

dist_to_segment(px, py, ax, ay, bx, by) ==
  dist_along(px, py, ax, ay, SSub(bx, ax), SSub(by, ay), SSub(px, ax), SSub(py, ay))

\* the width shape_v takes when the caller gives none
DefaultWidth == Dec(105, 10)

shape_v(x, y, width) ==
  SLe(SMin(dist_to_segment(x, y, Num(34), Num(30), Num(50), Num(72)),
           dist_to_segment(x, y, Num(50), Num(72), Num(66), Num(30))),
      SMul(width, Dec(5, 10)))

Epsilon == Dec(1, 1000000000)

\* 0.0 <= t <= 1.0
in_unit(t) == SLe(Num(0), t) /\ SLe(t, Num(1))

\* solve_quad_t_for_y from "if 0.0 <= t1 <= 1.0" on
solve_pick(t1, t2) ==
  IF in_unit(t1) THEN t1 ELSE IF in_unit(t2) THEN t2 ELSE clamp(t1, Num(0), Num(1))

\* solve_quad_t_for_y from "t1 = (-b + sd) / (2.0 * a)" on
solve_roots(a, b, sd) ==
  solve_pick(SDiv(SAdd(SNeg(b), sd), SMul(Num(2), a)),
             SDiv(SSub(SNeg(b), sd), SMul(Num(2), a)))

\* "if disc < 0.0: disc = 0.0" and "sd = math.sqrt(disc)"
solve_sd(disc) == SqrtQ((IF SLt(disc, Num(0)) THEN Num(0) ELSE disc).p)

\* solve_quad_t_for_y from "if abs(a) < 1e-9" on
solve_abc(a, b, c) ==
  IF SLt(SAbs(a), Epsilon)
  THEN IF SLt(SAbs(b), Epsilon)
       THEN Num(0)
       ELSE clamp(SDiv(SNeg(c), b), Num(0), Num(1))
  ELSE solve_roots(a, b, solve_sd(SSub(SMul(b, b), SMul(SMul(Num(4), a), c))))

solve_quad_t_for_y(y, y0, y1, y2) ==
  solve_abc(SAdd(SSub(y0, SMul(Num(2), y1)), y2),
            SAdd(SMul(Num(-2), y0), SMul(Num(2), y1)),
            SSub(y0, y))

\* mt * mt * p0[0] + 2.0 * mt * t * p1[0] + t * t * p2[0]
quad_x_at_t(t, mt, p0, p1, p2) ==
  SAdd(SAdd(SMul(SMul(mt, mt), p0[1]),
            SMul(SMul(SMul(Num(2), mt), t), p1[1])),
       SMul(SMul(t, t), p2[1]))

\* quad_x_at_y from "mt = 1.0 - t" on
quad_x_with(t, p0, p1, p2) == quad_x_at_t(t, SSub(Num(1), t), p0, p1, p2)

\* p0, p1, p2 are <<x, y>> pairs
quad_x_at_y(y, p0, p1, p2) ==
  quad_x_with(solve_quad_t_for_y(y, p0[2], p1[2], p2[2]), p0, p1, p2)

(***************************************************************************)
(* Shape field.  s is the table of keyword arguments of shield_shape.      *)
(***************************************************************************)
\* xl <= x <= xr
between(xl, x, xr) == SLe(xl, x) /\ SLe(x, xr)

shield_shape(x, y, s) ==
  IF SLt(y, s.top_y) \/ SLt(s.bottom_y, y)
  THEN FALSE
  ELSE IF SLt(y, s.side_top_y)
  THEN between(quad_x_at_y(y, <<s.left_side_x, s.side_top_y>>,
                              <<s.left_side_x, s.top_y>>,
                              <<s.top_left_x, s.top_y>>),
               x,
               quad_x_at_y(y, <<s.right_side_x, s.side_top_y>>,
                              <<s.right_side_x, s.top_y>>,
                              <<s.top_right_x, s.top_y>>))
  ELSE IF SLe(y, s.side_bottom_y)
  THEN between(s.left_side_x, x, s.right_side_x)
  ELSE IF SLe(y, s.mid_y)
  THEN between(quad_x_at_y(y, <<s.left_side_x, s.side_bottom_y>>,
                              s.low_ctrl_left,
                              <<s.mid_left_x, s.mid_y>>),
               x,
               quad_x_at_y(y, <<s.right_side_x, s.side_bottom_y>>,
                              s.low_ctrl_right,
                              <<s.mid_right_x, s.mid_y>>))
  ELSE between(quad_x_at_y(y, <<s.mid_left_x, s.mid_y>>,
                              s.deep_ctrl_left,
                              <<s.bottom_left_x, s.bottom_y>>),
               x,
               quad_x_at_y(y, <<s.mid_right_x, s.mid_y>>,
                              s.deep_ctrl_right,
                              <<s.bottom_right_x, s.bottom_y>>))

OuterTable ==
  [top_y |-> Num(8), side_top_y |-> Num(22), side_bottom_y |-> Num(60),
   mid_y |-> Num(76), bottom_y |-> Num(90),
   left_side_x |-> Num(14), right_side_x |-> Num(86),
   top_left_x |-> Num(28), top_right_x |-> Num(72),
   mid_left_x |-> Num(24), mid_right_x |-> Num(76),
   bottom_left_x |-> Num(44), bottom_right_x |-> Num(56),
   low_ctrl_left |-> <<Num(14), Num(69)>>, low_ctrl_right |-> <<Num(86), Num(69)>>,
   deep_ctrl_left |-> <<Num(33), Num(84)>>, deep_ctrl_right |-> <<Num(67), Num(84)>>]

shield_outer(x, y) == shield_shape(x, y, OuterTable)

\* shape_v_outline with the inner stroke one unit too narrow
shape_v_outline_thin(x, y) == shape_v(x, y, Dec(145, 10)) /\ ~shape_v(x, y, Dec(95, 10))

shape_v_outline(x, y) == shape_v(x, y, Dec(145, 10)) /\ ~shape_v(x, y, Dec(105, 10))

\* the inner table with its top edge above the top edge of the outer shield
InnerTableTall ==
  [top_y |-> Num(4), side_top_y |-> Num(26), side_bottom_y |-> Num(56),
   mid_y |-> Num(70), bottom_y |-> Num(84),
   left_side_x |-> Num(20), right_side_x |-> Num(80),
   top_left_x |-> Num(31), top_right_x |-> Num(69),
   mid_left_x |-> Num(29), mid_right_x |-> Num(71),
   bottom_left_x |-> Dec(435, 10), bottom_right_x |-> Dec(565, 10),
   low_ctrl_left |-> <<Num(20), Num(63)>>, low_ctrl_right |-> <<Num(80), Num(63)>>,
   deep_ctrl_left |-> <<Num(36), Num(77)>>, deep_ctrl_right |-> <<Num(64), Num(77)>>]

InnerTable ==
  [top_y |-> Num(14), side_top_y |-> Num(26), side_bottom_y |-> Num(56),
   mid_y |-> Num(70), bottom_y |-> Num(84),
   left_side_x |-> Num(20), right_side_x |-> Num(80),
   top_left_x |-> Num(31), top_right_x |-> Num(69),
   mid_left_x |-> Num(29), mid_right_x |-> Num(71),
   bottom_left_x |-> Dec(435, 10), bottom_right_x |-> Dec(565, 10),
   low_ctrl_left |-> <<Num(20), Num(63)>>, low_ctrl_right |-> <<Num(80), Num(63)>>,
   deep_ctrl_left |-> <<Num(36), Num(77)>>, deep_ctrl_right |-> <<Num(64), Num(77)>>]

shield_inner(x, y) == shield_shape(x, y, InnerTable)

CoreTable ==
  [top_y |-> Num(19), side_top_y |-> Num(29), side_bottom_y |-> Num(52),
   mid_y |-> Num(64), bottom_y |-> Num(78),
   left_side_x |-> Num(25), right_side_x |-> Num(75),
   top_left_x |-> Num(33), top_right_x |-> Num(67),
   mid_left_x |-> Num(33), mid_right_x |-> Num(67),
   bottom_left_x |-> Dec(432, 10), bottom_right_x |-> Dec(568, 10),
   low_ctrl_left |-> <<Num(25), Num(58)>>, low_ctrl_right |-> <<Num(75), Num(58)>>,
   deep_ctrl_left |-> <<Dec(385, 10), Num(70)>>, deep_ctrl_right |-> <<Dec(615, 10), Num(70)>>]

shield_core(x, y) == shield_shape(x, y, CoreTable)

(***************************************************************************)
(* A float argument of the compositor is a pair <<n, d>>, the rational     *)
(* n/d.  S gives it as an exact real for the shape tests, Fx in fixed      *)
(* point (FX units per 1) for the colour arithmetic.                       *)
(***************************************************************************)
FX == 1000

S(v) == R(Q(v[1], v[2]))

Fx(v) == (v[1] * FX) \div v[2]

FxMul(a, b) == (a * b) \div FX

FxDiv(a, b) == (a * FX) \div b

FxClamp(v, lo, hi) == IF v < lo THEN lo ELSE IF v > hi THEN hi ELSE v

\* int(c) for c >= 0
FxInt(c) == (c \div FX) * FX

Rgb(r, g, b) == <<r * FX, g * FX, b * FX>>

mix(c1, c2, t) ==
  <<c1[1] + FxMul(c2[1] - c1[1], t),
    c1[2] + FxMul(c2[2] - c1[2], t),
    c1[3] + FxMul(c2[3] - c1[3], t)>>

\* blend from "if out_a <= 0" on, for base = (br, bg, bb, ba)
blend_over(base, top_rgb, top_a, out_a) ==
  IF out_a <= 0
  THEN <<0, 0, 0, 0>>
  ELSE <<FxDiv(FxMul(top_rgb[1], top_a) + FxMul(FxMul(base[1], base[4]), FX - top_a), out_a),
         FxDiv(FxMul(top_rgb[2], top_a) + FxMul(FxMul(base[2], base[4]), FX - top_a), out_a),
         FxDiv(FxMul(top_rgb[3], top_a) + FxMul(FxMul(base[3], base[4]), FX - top_a), out_a),
         out_a>>

blend(base, top_rgb, top_a) ==
  blend_over(base, top_rgb, top_a, top_a + FxMul(base[4], FX - top_a))

(***************************************************************************)
(* Colour compositor.                                                      *)
(***************************************************************************)
\* t = clamp((x * 0.62 + y * 0.38) / 100.0, 0.0, 1.0)
gradient_t(x, y) ==
  FxClamp(FxDiv(FxMul(Fx(x), 620) + FxMul(Fx(y), 380), 100 * FX), 0, FX)

\* ((v - c) / 100.0) ** 2
glow_term(v, c) == FxMul(FxDiv(Fx(v) - c * FX, 100 * FX), FxDiv(Fx(v) - c * FX, 100 * FX))

\* glow = clamp(1.0 - (... + ...) * 2.3, 0.0, 1.0) * 0.18
glow(x, y) ==
  FxMul(FxClamp(FX - FxMul(glow_term(x, 30) + glow_term(y, 20), 2300), 0, FX), 180)

\* tuple(int(c) for c in bg)
truncated(bg) == <<FxInt(bg[1]), FxInt(bg[2]), FxInt(bg[3])>>

\* color = (bg[0], bg[1], bg[2], 1.0)
opaque(bg) == <<bg[1], bg[2], bg[3], FX>>

\* the gradient and glow, before any layer is blended
background(x, y) ==
  opaque(mix(truncated(mix(Rgb(13, 24, 41), Rgb(76, 29, 149), gradient_t(x, y))),
             Rgb(0, 212, 255), glow(x, y)))

\* the vertical gradient of the letter
letter(y) ==
  mix(Rgb(126, 249, 255), Rgb(0, 180, 255), FxClamp(FxDiv(Fx(y) - 24 * FX, 50 * FX), 0, FX))

\* band without the blend of the outer band
band_middle_only(color, in_inner, in_core) ==
  IF in_inner /\ ~in_core THEN blend(color, Rgb(0, 153, 204), 900) ELSE color

\* the outer and middle band of the shield
band(color, in_inner, in_core) ==
  IF ~in_inner THEN blend(color, Rgb(0, 212, 255), 950)
  ELSE IF ~in_core THEN blend(color, Rgb(0, 153, 204), 900)
  ELSE color

shadow(color, shadow_v) == IF shadow_v THEN blend(color, Rgb(8, 10, 18), 420) ELSE color

outline(color, is_outline) == IF is_outline THEN blend(color, Rgb(5, 9, 20), 960) ELSE color

\* fill blended at the alpha of the outline instead of 1.0
fill_translucent(color, y, is_fill) == IF is_fill THEN blend(color, letter(y), 960) ELSE color

fill(color, y, is_fill) == IF is_fill THEN blend(color, letter(y), FX) ELSE color

\* what each shape test of sample_icon returns at the point (x, y)
membership(x, y) ==
  [in_outer   |-> shield_outer(S(x), S(y)),
   in_inner   |-> shield_inner(S(x), S(y)),
   in_core    |-> shield_core(S(x), S(y)),
   shadow_v   |-> shape_v(SSub(S(x), Dec(15, 10)), SSub(S(y), Dec(16, 10)), DefaultWidth),
   is_outline |-> shape_v_outline(S(x), S(y)),
   is_fill    |-> shape_v(S(x), S(y), DefaultWidth)]

\* composite without the early return for points outside the outer shield
composite_everywhere(x, y, m) ==
  fill(outline(shadow(band(background(x, y), m.in_inner, m.in_core), m.shadow_v),
               m.is_outline),
       y, m.is_fill)

\* sample_icon, given what its shape tests return
composite(x, y, m) ==
  IF ~m.in_outer
  THEN <<0, 0, 0, 0>>
  ELSE fill(outline(shadow(band(background(x, y), m.in_inner, m.in_core), m.shadow_v),
                    m.is_outline),
            y, m.is_fill)

sample_icon(x, y) == composite(x, y, membership(x, y))

(***************************************************************************)
(* Rasterizer.                                                             *)
(***************************************************************************)
\* (i + (sx + 0.5) / supersample) * 100.0 / size, as a fraction
sample_coord(i, sx, size, supersample) ==
  <<(2 * supersample * i + 2 * sx + 1) * 50, supersample * size>>

\* the sub-samples of pixel (i, j) in loop order: sy outer, sx inner
sample_points(size, supersample, i, j) ==
  [k \in 1..(supersample * supersample) |->
     <<sample_coord(i, (k - 1) % supersample, size, supersample),
       sample_coord(j, (k - 1) \div supersample, size, supersample)>>]

RECURSIVE accumulate(_, _, _)
accumulate(colors, k, ch) ==
  IF k = 0 THEN 0 ELSE accumulate(colors, k - 1, ch) + colors[k][ch]

\* int(clamp(v, 0.0, 255.0) + 0.5)
to_byte(v) == (FxClamp(v, 0, 255 * FX) + 500) \div FX

\* lines 261-279 for the sampled colours of one pixel
pixel_bytes(colors, supersample) ==
  LET inv == FxDiv(FX, supersample * supersample * FX)
      r   == FxMul(accumulate(colors, Len(colors), 1), inv)
      g   == FxMul(accumulate(colors, Len(colors), 2), inv)
      b   == FxMul(accumulate(colors, Len(colors), 3), inv)
      a   == FxMul(accumulate(colors, Len(colors), 4), inv)
  IN  <<to_byte(r), to_byte(g), to_byte(b), to_byte(FxMul(a, 255 * FX))>>

\* pixel_index with three bytes per pixel
pixel_index_rgb(size, i, j) == (j * size + i) * 3

pixel_index(size, i, j) == (j * size + i) * 4

\* lines 261-279: the body of the pixel loop, the four bytes of pixel (i, j)
render_pixel(size, supersample, i, j) ==
  LET pts == sample_points(size, supersample, i, j)
  IN  pixel_bytes([k \in DOMAIN pts |-> sample_icon(pts[k][1], pts[k][2])], supersample)

\* pixels[idx], ..., pixels[idx + 3] = bytes (Python indexes from 0)
store(buf, idx, bytes) ==
  [buf EXCEPT ![idx + 1] = bytes[1], ![idx + 2] = bytes[2],
              ![idx + 3] = bytes[3], ![idx + 4] = bytes[4]]

\* the count of assignments to each byte, after those of store(buf, idx, bytes)
stored(w, idx) ==
  [w EXCEPT ![idx + 1] = @ + 1, ![idx + 2] = @ + 1, ![idx + 3] = @ + 1, ![idx + 4] = @ + 1]

(***************************************************************************)
(* Byte strings are sequences of 0..255.  struct.pack for the formats the  *)
(* script uses; a value out of the range of its format raises struct.error *)
(* and is told apart by the *_fits tests.                                  *)
(***************************************************************************)
\* struct.pack(">I", v)
pack_be32(v) ==
  <<(v \div 16777216) % 256, (v \div 65536) % 256, (v \div 256) % 256, v % 256>>

\* struct.pack("<I", v)
pack_le32(v) ==
  <<v % 256, (v \div 256) % 256, (v \div 65536) % 256, (v \div 16777216) % 256>>

\* struct.pack("<H", v)
pack_le16(v) == <<v % 256, (v \div 256) % 256>>

\* the largest value of format "H"
MaxH == 65535

\* format "H" takes v
fits_H(v) == v >= 0 /\ v <= MaxH

\* format "B" takes v
fits_B(v) == v >= 0 /\ v <= 255

\* format "I" takes v (lengths and offsets here stay below 2^31)
fits_I(v) == v >= 0

\* b"".join(parts[lo-1:hi]), by halves
RECURSIVE join(_, _, _)
join(parts, lo, hi) ==
  IF lo > hi THEN <<>>
  ELSE IF lo = hi THEN parts[lo]
  ELSE join(parts, lo, (lo + hi) \div 2) \o join(parts, ((lo + hi) \div 2) + 1, hi)

\* seq[lo:hi] of Python for 0 <= lo <= hi: what is past the end is left out
slice(seq, lo, hi) ==
  SubSeq(seq, (IF lo < Len(seq) THEN lo ELSE Len(seq)) + 1,
              IF hi < Len(seq) THEN hi ELSE Len(seq))

(***************************************************************************)
(* zlib, which the script imports: crc32 and adler32 as RFC 1952 and       *)
(* RFC 1950 define them, on pairs <<high 16 bits, low 16 bits>>; compress  *)
(* as a zlib stream of one stored block, one of the streams RFC 1950 and   *)
(* RFC 1951 allow for the data.                                            *)
(***************************************************************************)
RECURSIVE xor_bits(_, _, _)
xor_bits(a, b, n) ==
  IF n = 0 THEN 0
  ELSE ((a + b) % 2) + 2 * xor_bits(a \div 2, b \div 2, n - 1)

xor16(a, b) == xor_bits(a, b, 16)

\* one bit of the CRC register c through the reflected polynomial EDB88320
crc_shift(c) ==
  IF c[2] % 2 = 1
  THEN <<xor16(c[1] \div 2, 60856), xor16((c[2] \div 2) + (c[1] % 2) * 32768, 33568)>>
  ELSE <<c[1] \div 2, (c[2] \div 2) + (c[1] % 2) * 32768>>

crc_byte(c, byte) ==
  crc_shift(crc_shift(crc_shift(crc_shift(
    crc_shift(crc_shift(crc_shift(crc_shift(<<c[1], xor16(c[2], byte)>>))))))))

\* the register c after the bytes data[i..]; the test of c has TLC compute
\* the register of one byte before it goes on to the next
RECURSIVE crc_bytes(_, _, _)
crc_bytes(c, data, i) ==
  IF i > Len(data) \/ c = <<>> THEN c ELSE crc_bytes(crc_byte(c, data[i]), data, i + 1)

\* the complement of the register when the data ends
crc_final(c) == <<65535 - c[1], 65535 - c[2]>>

\* zlib.crc32(data) & 0xFFFFFFFF
crc32(data) == crc_final(crc_bytes(<<65535, 65535>>, data, 1))

\* the four bytes of <<high, low>>, most significant first
pack_be_halves(v) == <<v[1] \div 256, v[1] % 256, v[2] \div 256, v[2] % 256>>

\* the sums <<s2, s1>> of Adler-32
adler_step(v, byte) == <<(v[1] + ((v[2] + byte) % 65521)) % 65521, (v[2] + byte) % 65521>>

RECURSIVE adler_bytes(_, _, _)
adler_bytes(v, data, i) ==
  IF i > Len(data) \/ v = <<>> THEN v ELSE adler_bytes(adler_step(v, data[i]), data, i + 1)

adler32(data) == adler_bytes(<<0, 1>>, data, 1)

\* zlib.compress(raw, 9) for len(raw) < 65536: header 78 DA, one final
\* stored block (LEN, NLEN, the data), the Adler-32 of the data
zlib_compress(raw) ==
  <<120, 218, 1>> \o pack_le16(Len(raw)) \o pack_le16(65535 - Len(raw))
    \o raw \o pack_be_halves(adler32(raw))

(***************************************************************************)
(* PNG encoder.                                                            *)
(***************************************************************************)
png_chunk(tag, data) ==
  pack_be32(Len(data)) \o tag \o data \o pack_be_halves(crc32(tag \o data))

\* b"\x89PNG\r\n\x1a\n"
signature == <<137, 80, 78, 71, 13, 10, 26, 10>>

IHDR == <<73, 72, 68, 82>>

IDAT == <<73, 68, 65, 84>>

IEND == <<73, 69, 78, 68>>

\* rows: b"\x00" + rgba[y * stride : (y + 1) * stride] for y in range(height)
scanlines(height, stride, rgba) ==
  [r \in 1..height |-> <<0>> \o slice(rgba, (r - 1) * stride, r * stride)]

\* encode_png from "signature = ..." on
encode_raw(width, height, raw) ==
  signature
    \o png_chunk(IHDR, pack_be32(width) \o pack_be32(height) \o <<8, 6, 0, 0, 0>>)
    \o png_chunk(IDAT, zlib_compress(raw))
    \o png_chunk(IEND, <<>>)

\* encode_png with three bytes per pixel in stride
encode_png_rgb(width, height, rgba) ==
  encode_raw(width, height, join(scanlines(height, width * 3, rgba), 1, height))

\* width and height are naturals; no statement of encode_png raises
encode_png(width, height, rgba) ==
  encode_raw(width, height, join(scanlines(height, width * 4, rgba), 1, height))

(***************************************************************************)
(* ICO encoder.  images is a sequence of pairs <<size, png>>.  The file at *)
(* path is [exists, bytes]; write_ico gives what it raised and the file    *)
(* it leaves.                                                              *)
(***************************************************************************)
\* the sum of len(png) over images[lo-1:hi], by halves
RECURSIVE payload_length(_, _, _)
payload_length(images, lo, hi) ==
  IF lo > hi THEN 0
  ELSE IF lo = hi THEN Len(images[lo][2])
  ELSE payload_length(images, lo, (lo + hi) \div 2)
         + payload_length(images, ((lo + hi) \div 2) + 1, hi)

\* the value of offset at the start of each pass of the loop over
\* images[lo-1:hi], where it is start at the first: "offset += len(png)"
RECURSIVE offsets(_, _, _, _)
offsets(images, lo, hi, start) ==
  IF lo > hi THEN <<>>
  ELSE IF lo = hi THEN <<start>>
  ELSE offsets(images, lo, (lo + hi) \div 2, start)
         \o offsets(images, ((lo + hi) \div 2) + 1, hi,
                    start + payload_length(images, lo, (lo + hi) \div 2))

\* offset = 6 + 16 * len(images)
first_offset_one(n) == 6 + 16

first_offset(n) == 6 + 16 * n

\* w = 0 if size >= 256 else size
dimension(size) == IF size >= 256 THEN 0 ELSE size

\* struct.pack("<BBBBHHII", w, h, 0, 0, 1, 32, len(png), offset)
entry(size, png, offset) ==
  <<dimension(size), dimension(size), 0, 0>> \o pack_le16(1) \o pack_le16(32)
    \o pack_le32(Len(png)) \o pack_le32(offset)

\* the pack of the entry does not raise
entry_fits(size, png, offset) ==
  fits_B(dimension(size)) /\ fits_I(Len(png)) /\ fits_I(offset)

\* the header with the type and count fields in each other's place
header_swapped(n) == pack_le16(0) \o pack_le16(n) \o pack_le16(1)

\* struct.pack("<HHH", 0, 1, len(images))
header(n) == pack_le16(0) \o pack_le16(1) \o pack_le16(n)

\* the loop and path.write_bytes, offs the offset of each pass
write_entries(file, images, offs) ==
  IF \E k \in DOMAIN images : ~entry_fits(images[k][1], images[k][2], offs[k])
  THEN [raised |-> "entry", file |-> file]
  ELSE [raised |-> "none",
        file   |-> [exists |-> TRUE,
                    bytes  |-> header(Len(images))
                                \o join([k \in DOMAIN images |->
                                           entry(images[k][1], images[k][2], offs[k])],
                                        1, Len(images))
                                \o join([k \in DOMAIN images |-> images[k][2]],
                                        1, Len(images))]]

\* raised: "header" and "entry" are the struct.error of the two packs
write_ico(file, images) ==
  IF ~fits_H(Len(images))
  THEN [raised |-> "header", file |-> file]
  ELSE write_entries(file, images,
                     offsets(images, 1, Len(images), first_offset(Len(images))))

(***************************************************************************)
(* Bounds of the model.                                                    *)
(***************************************************************************)
MaxSize == 6

MaxSupersample == 2

MaxRenderSize == 3

\* every pixel of the small renderings, computed once
PixelCache ==
  [n \in 1..(MaxRenderSize * MaxSupersample * MaxRenderSize * MaxRenderSize) |->
     LET c == n - 1
         j == c % MaxRenderSize
         i == (c \div MaxRenderSize) % MaxRenderSize
         s == ((c \div (MaxRenderSize * MaxRenderSize)) % MaxSupersample) + 1
         z == (c \div (MaxRenderSize * MaxRenderSize * MaxSupersample)) + 1
     IN  IF i < z /\ j < z THEN render_pixel(z, s, i, j) ELSE <<>>]

cached_pixel(size, supersample, i, j) ==
  PixelCache[((((size - 1) * MaxSupersample + (supersample - 1)) * MaxRenderSize + i)
              * MaxRenderSize) + j + 1]

\* the loop of render_icon over pixel number n = j * size + i, rows first
RECURSIVE render_loop(_, _, _)
render_loop(size, supersample, n) ==
  IF n = 0
  THEN [b \in 1..(size * size * 4) |-> 0]
  ELSE LET i == (n - 1) % size
           j == (n - 1) \div size
       IN  store(render_loop(size, supersample, n - 1), pixel_index(size, i, j),
                 cached_pixel(size, supersample, i, j))

render_icon(size, supersample) == render_loop(size, supersample, size * size)

\* the largest width and height given to encode_png
MaxDim == 2

\* the longest list of images given to write_ico, the two lists around the
\* limit of the count field aside
MaxImages == 2

\* the sizes and payloads of the images given to write_ico
Sizes == {-1, 16, 256}

Payloads == {<<>>, <<137, 80, 78, 71>>, [k \in 1..300 |-> (k * 7) % 256]}

\* n images of size 16 with an empty payload
RECURSIVE uniform(_)
uniform(n) ==
  IF n = 0 THEN <<>>
  ELSE IF n = 1 THEN <<<<16, <<>>>>>>
  ELSE uniform(n \div 2) \o uniform(n - (n \div 2))

\* all the lists of n images
RECURSIVE lists(_)
lists(n) ==
  IF n = 0 THEN {<<>>}
  ELSE {Append(l, <<s, p>>) : l \in lists(n - 1), s \in Sizes, p \in Payloads}

\* red and blue, opaque, as a 2 x 2 checkerboard
Checkerboard == <<255, 0, 0, 255, 0, 0, 255, 255, 0, 0, 255, 255, 255, 0, 0, 255>>

\* the buffers given to encode_png: n bytes of the checkerboard repeated
\* (kind 1) or of a ramp (kind 2)
buffer(kind, n) ==
  [k \in 1..n |-> IF kind = 1 THEN Checkerboard[((k - 1) % 16) + 1] ELSE (37 * k + 11) % 256]

VARIABLES
  pc,          \* where the run is
  rsize,       \* render_icon: size
  rsuper,      \* render_icon: supersample
  pi, pj,      \* the pixel (i, j) being computed
  points,      \* its sub-sample points <<x, y>>, in loop order
  region,      \* what the shape tests return at each sub-sample point
  samples,     \* the colour sample_icon returns for each sub-sample
  quad,        \* the four bytes written for the pixel
  pixels,      \* render_icon: the bytearray
  done,        \* the pixels already written
  writes,      \* how often each byte of pixels was assigned
  png_width,   \* encode_png: width
  png_height,  \* encode_png: height
  png_rgba,    \* encode_png: rgba
  png_result,  \* encode_png: what was raised and what was returned
  ico_images,  \* write_ico: images
  ico_file,    \* write_ico: the file at path
  ico_raised   \* write_ico: what was raised

render_vars == <<rsize, rsuper, pi, pj, points, region, samples, quad, pixels, done, writes>>

png_vars == <<png_width, png_height, png_rgba, png_result>>

ico_vars == <<ico_images, ico_file, ico_raised>>

vars == <<pc, render_vars, png_vars, ico_vars>>

\* the variables of the rasterizer where it does not run
NoRender ==
  /\ rsize = 0 /\ rsuper = 0 /\ pi = 0 /\ pj = 0
  /\ points = <<>> /\ region = <<>> /\ samples = <<>> /\ quad = <<>>
  /\ pixels = <<>> /\ done = {} /\ writes = <<>>

\* the variables of the PNG encoder where it does not run
NoPng ==
  /\ png_width = 0 /\ png_height = 0 /\ png_rgba = <<>>
  /\ png_result = [raised |-> "none", value |-> <<>>]

\* the variables of the ICO encoder where it does not run
NoIco ==
  /\ ico_images = <<>>
  /\ ico_file = [exists |-> FALSE, bytes |-> <<>>]
  /\ ico_raised = "none"

(***************************************************************************)
(* One pixel of a rendering: the shape tests and the compositor at each of *)
(* its sub-samples, and the bytes the rasterizer writes for it.            *)
(***************************************************************************)
InitPixel ==
  /\ pc = "start"
  /\ rsize \in 1..MaxSize
  /\ rsuper \in 1..MaxSupersample
  /\ pi \in 0..(rsize - 1)
  /\ pj \in 0..(rsize - 1)
  /\ points = sample_points(rsize, rsuper, pi, pj)
  /\ region = <<>>
  /\ samples = <<>>
  /\ quad = <<>>
  /\ pixels = <<>>
  /\ done = {}
  /\ writes = <<>>
  /\ NoPng
  /\ NoIco

Membership ==
  /\ pc = "start"
  /\ region' = [k \in DOMAIN points |-> membership(points[k][1], points[k][2])]
  /\ pc' = "probed"
  /\ UNCHANGED <<rsize, rsuper, pi, pj, points, samples, quad, pixels, done, writes, png_vars, ico_vars>>

RenderPixel ==
  /\ pc = "probed"
  /\ samples' = [k \in DOMAIN points |-> composite(points[k][1], points[k][2], region[k])]
  /\ quad' = pixel_bytes(samples', rsuper)
  /\ pc' = "done"
  /\ UNCHANGED <<rsize, rsuper, pi, pj, points, region, pixels, done, writes, png_vars, ico_vars>>

NextPixel == Membership \/ RenderPixel

SpecPixel == InitPixel /\ [][NextPixel]_vars

(***************************************************************************)
(* render_icon with its pixels computed in any order.                      *)
(***************************************************************************)
InitRender ==
  /\ pc = "render"
  /\ rsize \in 1..MaxRenderSize
  /\ rsuper \in 1..MaxSupersample
  /\ pixels = [b \in 1..(rsize * rsize * 4) |-> 0]
  /\ writes = [b \in 1..(rsize * rsize * 4) |-> 0]
  /\ done = {}
  /\ pi = 0 /\ pj = 0 /\ points = <<>> /\ region = <<>> /\ samples = <<>> /\ quad = <<>>
  /\ NoPng
  /\ NoIco

WritePixel ==
  /\ pc = "render"
  /\ \E i \in 0..(rsize - 1), j \in 0..(rsize - 1) :
       /\ <<i, j>> \notin done
       /\ pixels' = store(pixels, pixel_index(rsize, i, j), cached_pixel(rsize, rsuper, i, j))
       /\ writes' = stored(writes, pixel_index(rsize, i, j))
       /\ done' = done \cup {<<i, j>>}
  /\ UNCHANGED <<pc, rsize, rsuper, pi, pj, points, region, samples, quad, png_vars, ico_vars>>

NextRender == WritePixel

SpecRender == InitRender /\ [][NextRender]_vars

(***************************************************************************)
(* One call of encode_png.                                                 *)
(***************************************************************************)
InitPng ==
  /\ pc = "png"
  /\ png_width \in 0..MaxDim
  /\ png_height \in 0..MaxDim
  /\ \E kind \in 1..2, n \in 0..(4 * MaxDim * MaxDim + 1) : png_rgba = buffer(kind, n)
  /\ png_result = [raised |-> "none", value |-> <<>>]
  /\ NoRender
  /\ NoIco

EncodePng ==
  /\ pc = "png"
  /\ png_result' = [raised |-> "none", value |-> encode_png(png_width, png_height, png_rgba)]
  /\ pc' = "encoded"
  /\ UNCHANGED <<render_vars, png_width, png_height, png_rgba, ico_vars>>

NextPng == EncodePng

SpecPng == InitPng /\ [][NextPng]_vars

(***************************************************************************)
(* One call of write_ico, the path absent before it.                       *)
(***************************************************************************)
InitIco ==
  /\ pc = "ico"
  /\ \/ \E n \in 0..MaxImages : ico_images \in lists(n)
     \/ ico_images \in {uniform(MaxH), uniform(MaxH + 1)}
  /\ ico_file = [exists |-> FALSE, bytes |-> <<>>]
  /\ ico_raised = "none"
  /\ NoRender
  /\ NoPng

WriteIco ==
  /\ pc = "ico"
  /\ \E r \in {write_ico(ico_file, ico_images)} :
       /\ ico_raised' = r.raised
       /\ ico_file' = r.file
  /\ pc' = "written"
  /\ UNCHANGED <<render_vars, png_vars, ico_images>>

NextIco == WriteIco

SpecIco == InitIco /\ [][NextIco]_vars

Spec == SpecPixel

(***************************************************************************)
(* Properties of the shape field and the compositor, under SpecPixel.      *)
(***************************************************************************)
\* the sub-sample point p = <<x, y>> is the design point (px, py)
IsPoint(p, px, py) == p[1][1] = px * p[1][2] /\ p[2][1] = py * p[2][2]

\* C3 as the spec states it: at the design point (50, 10) the point is inside
\* the outer, inner and core shields and sample_icon returns the plain
\* background colour
C3_PlainBackground ==
  pc = "done" =>
    \A k \in DOMAIN points :
      IsPoint(points[k], 50, 10) =>
        /\ region[k].in_outer /\ region[k].in_inner /\ region[k].in_core
        /\ samples[k] = background(points[k][1], points[k][2])

\* C3 amended: the design point (50, 10) is inside the outer shield only,
\* above the inner and core shields and away from the V, and sample_icon
\* returns the background colour under the outer-band blend alone
C3_OuterBandOnly ==
  pc = "done" =>
    \A k \in DOMAIN points :
      IsPoint(points[k], 50, 10) =>
        /\ region[k].in_outer /\ ~region[k].in_inner /\ ~region[k].in_core
        /\ ~region[k].shadow_v /\ ~region[k].is_outline /\ ~region[k].is_fill
        /\ samples[k] = blend(background(points[k][1], points[k][2]), Rgb(0, 212, 255), 950)

C3_Witness ==
  /\ pc = "done"
  /\ \E k \in DOMAIN points :
       /\ IsPoint(points[k], 50, 10)
       /\ samples[k] # background(points[k][1], points[k][2])
       /\ samples[k][4] = FX

\* C4: at every sampled point shield_core implies shield_inner and
\* shield_inner implies shield_outer
C4_Nesting ==
  pc = "probed" =>
    \A k \in DOMAIN region :
      /\ region[k].in_core => region[k].in_inner
      /\ region[k].in_inner => region[k].in_outer

C4_Witness ==
  /\ pc = "probed"
  /\ \E k \in DOMAIN region : region[k].in_core
  /\ \E k \in DOMAIN region : region[k].in_outer /\ ~region[k].in_inner

\* C5: a sample outside the outer shield is (0, 0, 0, 0), and a pixel whose
\* sub-samples are all outside the outer shield is written as four zero bytes
C5_Transparent ==
  pc = "done" =>
    /\ \A k \in DOMAIN points : ~region[k].in_outer => samples[k] = <<0, 0, 0, 0>>
    /\ (\A k \in DOMAIN points : ~region[k].in_outer) => quad = <<0, 0, 0, 0>>

C5_Witness ==
  /\ pc = "done"
  /\ Len(points) > 1
  /\ \A k \in DOMAIN points : ~region[k].in_outer /\ region[k].shadow_v = FALSE
  /\ quad = <<0, 0, 0, 0>>

\* C8: shape_v_outline holds exactly within the 14.5 stroke and outside the
\* 10.5 stroke, and never where the fill test of the compositor holds
C8_Annulus ==
  pc = "probed" =>
    \A k \in DOMAIN region :
      /\ region[k].is_outline <=>
           (/\ shape_v(S(points[k][1]), S(points[k][2]), Dec(145, 10))
            /\ ~shape_v(S(points[k][1]), S(points[k][2]), Dec(105, 10)))
      /\ ~(region[k].is_outline /\ region[k].is_fill)

C8_Witness ==
  /\ pc = "probed"
  /\ \E k \in DOMAIN region : region[k].is_outline
  /\ \E k \in DOMAIN region : region[k].is_fill

\* C10: where the V-fill test holds inside the outer shield, sample_icon
\* returns the letter gradient at alpha 1, whatever was blended before
C10_FillOnTop ==
  pc = "done" =>
    \A k \in DOMAIN points :
      (region[k].in_outer /\ region[k].is_fill) =>
        /\ samples[k][1] = letter(points[k][2])[1]
        /\ samples[k][2] = letter(points[k][2])[2]
        /\ samples[k][3] = letter(points[k][2])[3]
        /\ samples[k][4] = FX

C10_Witness ==
  /\ pc = "done"
  /\ \E k \in DOMAIN points :
       /\ region[k].in_outer /\ region[k].is_fill /\ region[k].shadow_v
       /\ samples[k][4] = FX
       /\ samples[k] # background(points[k][1], points[k][2])

(***************************************************************************)
(* Properties of the rasterizer, under SpecRender.                         *)
(***************************************************************************)
AllPixels == {<<i, j>> : i \in 0..(rsize - 1), j \in 0..(rsize - 1)}

\* C9: no byte of the buffer is written twice; once every pixel is written,
\* in whatever order, every byte was written once and the buffer is the one
\* render_icon builds row by row
C9_OrderIndependent ==
  pc = "render" =>
    /\ \A b \in DOMAIN writes : writes[b] <= 1
    /\ \A b \in DOMAIN writes :
         writes[b] = 1 <=> <<((b - 1) \div 4) % rsize, ((b - 1) \div 4) \div rsize>> \in done
    /\ done = AllPixels =>
         /\ \A b \in DOMAIN writes : writes[b] = 1
         /\ pixels = render_icon(rsize, rsuper)

C9_Witness ==
  /\ pc = "render"
  /\ rsize > 1
  /\ done = AllPixels
  /\ \E b \in DOMAIN pixels : pixels[b] # 0

(***************************************************************************)
(* A PNG reader for the files of encode_png, and the properties of the     *)
(* encoder, under SpecPng.                                                 *)
(***************************************************************************)
\* the big-endian number in the four bytes after the first at bytes of f
be32_at(f, at) == ((f[at + 1] * 256 + f[at + 2]) * 256 + f[at + 3]) * 256 + f[at + 4]

\* the chunk that starts after the first at bytes of f; sound tells whether
\* the chunk lies within f and carries the CRC-32 of its tag and data
chunk_at(f, at) ==
  IF at + 12 > Len(f) \/ f[at + 1] # 0 \/ at + 12 + be32_at(f, at) > Len(f)
  THEN [sound |-> FALSE, tag |-> <<>>, data |-> <<>>, next |-> Len(f)]
  ELSE [sound |-> SubSeq(f, at + 9 + be32_at(f, at), at + 12 + be32_at(f, at))
                    = pack_be_halves(crc32(SubSeq(f, at + 5, at + 8 + be32_at(f, at)))),
        tag   |-> SubSeq(f, at + 5, at + 8),
        data  |-> SubSeq(f, at + 9, at + 8 + be32_at(f, at)),
        next  |-> at + 12 + be32_at(f, at)]

\* the data of the stored deflate blocks of z from byte at on, or <<-1>>
\* where z is not a sequence of stored blocks that ends with a final one
RECURSIVE stored_blocks(_, _)
stored_blocks(z, at) ==
  IF at + 5 > Len(z) - 4 \/ (z[at + 1] \div 2) % 4 # 0
     \/ z[at + 2] + z[at + 4] # 255 \/ z[at + 3] + z[at + 5] # 255
     \/ at + 5 + z[at + 2] + 256 * z[at + 3] > Len(z) - 4
  THEN <<-1>>
  ELSE IF z[at + 1] % 2 = 1
  THEN IF at + 5 + z[at + 2] + 256 * z[at + 3] = Len(z) - 4
       THEN SubSeq(z, at + 6, at + 5 + z[at + 2] + 256 * z[at + 3])
       ELSE <<-1>>
  ELSE SubSeq(z, at + 6, at + 5 + z[at + 2] + 256 * z[at + 3])
         \o stored_blocks(z, at + 5 + z[at + 2] + 256 * z[at + 3])

\* zlib.decompress(z) for a stream of stored blocks, <<-1>> for any other z
inflate(z) ==
  IF Len(z) < 6 \/ z[1] # 120 \/ (z[1] * 256 + z[2]) % 31 # 0 \/ (z[2] \div 32) % 2 # 0
  THEN <<-1>>
  ELSE IF stored_blocks(z, 2) = <<-1>> THEN <<-1>>
  ELSE IF SubSeq(z, Len(z) - 3, Len(z)) # pack_be_halves(adler32(stored_blocks(z, 2)))
  THEN <<-1>>
  ELSE stored_blocks(z, 2)

\* raw is height scanlines of 1 + 4 * width bytes with filter byte 0
filtered_none(raw, width, height) ==
  /\ Len(raw) = height * (1 + 4 * width)
  /\ \A r \in 1..height : raw[(r - 1) * (1 + 4 * width) + 1] = 0

\* the scanlines of raw without their filter bytes
unfiltered(raw, width, height) ==
  [k \in 1..(4 * width * height) |-> raw[k + ((k - 1) \div (4 * width)) + 1]]

\* f is signature, IHDR, IDAT, IEND and nothing else
png_layout(f) ==
  /\ Len(f) >= 8 /\ SubSeq(f, 1, 8) = signature
  /\ chunk_at(f, 8).sound /\ chunk_at(f, 8).tag = IHDR
  /\ chunk_at(f, chunk_at(f, 8).next).sound
  /\ chunk_at(f, chunk_at(f, 8).next).tag = IDAT
  /\ chunk_at(f, chunk_at(f, chunk_at(f, 8).next).next).sound
  /\ chunk_at(f, chunk_at(f, chunk_at(f, 8).next).next).tag = IEND
  /\ chunk_at(f, chunk_at(f, chunk_at(f, 8).next).next).data = <<>>
  /\ chunk_at(f, chunk_at(f, chunk_at(f, 8).next).next).next = Len(f)

png_ihdr(f) == chunk_at(f, 8).data

png_idat(f) == chunk_at(f, chunk_at(f, 8).next).data

\* C1 as the spec states it: a buffer whose length is not width*height*4 is
\* rejected with SizeMismatch and no PNG is returned
C1_SizeMismatch ==
  (pc = "encoded" /\ Len(png_rgba) # png_width * png_height * 4) =>
    (png_result.raised = "SizeMismatch" /\ png_result.value = <<>>)

\* C7: for a buffer of width*height*4 bytes the file is signature, IHDR
\* (width, height, 8, 6, 0, 0, 0), IDAT, empty IEND, and inflating the IDAT
\* data and dropping the filter bytes gives the buffer back
C7_RoundTrip ==
  (pc = "encoded" /\ Len(png_rgba) = png_width * png_height * 4) =>
    /\ png_result.raised = "none"
    /\ png_layout(png_result.value)
    /\ png_ihdr(png_result.value)
         = pack_be32(png_width) \o pack_be32(png_height) \o <<8, 6, 0, 0, 0>>
    /\ filtered_none(inflate(png_idat(png_result.value)), png_width, png_height)
    /\ unfiltered(inflate(png_idat(png_result.value)), png_width, png_height) = png_rgba

C7_Witness ==
  /\ pc = "encoded"
  /\ png_width = 2 /\ png_height = 2 /\ png_rgba = Checkerboard
  /\ png_layout(png_result.value)
  /\ unfiltered(inflate(png_idat(png_result.value)), 2, 2) = Checkerboard

(***************************************************************************)
(* Properties of the ICO encoder, under SpecIco.  The file is read back    *)
(* as an ICO reader reads it.                                              *)
(***************************************************************************)
\* the little-endian 16-bit field at byte offset at of f
le16_at(f, at) == f[at + 1] + 256 * f[at + 2]

\* the little-endian 32-bit field at byte offset at of f
le32_at(f, at) ==
  f[at + 1] + 256 * f[at + 2] + 65536 * f[at + 3] + 16777216 * f[at + 4]

\* the length field of directory entry k of f
dir_length(f, k) == le32_at(f, 6 + 16 * (k - 1) + 8)

\* the offset field of directory entry k of f
dir_offset(f, k) == le32_at(f, 6 + 16 * (k - 1) + 12)

\* bytes [dir_offset, dir_offset + dir_length) of f for entry k
dir_payload(f, k) ==
  SubSeq(f, dir_offset(f, k) + 1, dir_offset(f, k) + dir_length(f, k))

\* C2: in the file write_ico leaves for n images, entry k has the length of
\* payload k in its length field; the first offset field is 6 + 16 * n and
\* each later one is the one before plus the length of the payload before
\* (so it is 6 + 16 * n plus the lengths of payloads 1..k-1); the bytes at
\* offset_k, length_k long, are payload k; and the file ends with the last
\* payload (so it is 6 + 16 * n plus all the payload lengths long)
C2_Layout ==
  (pc = "written" /\ ico_raised = "none") =>
    /\ ico_file.exists
    /\ Len(ico_file.bytes) >= 6 + 16 * Len(ico_images)
    /\ \A k \in 1..Len(ico_images) :
         /\ dir_length(ico_file.bytes, k) = Len(ico_images[k][2])
         /\ dir_offset(ico_file.bytes, k)
              = IF k = 1 THEN 6 + 16 * Len(ico_images)
                ELSE dir_offset(ico_file.bytes, k - 1) + Len(ico_images[k - 1][2])
         /\ dir_offset(ico_file.bytes, k) + dir_length(ico_file.bytes, k)
              <= Len(ico_file.bytes)
         /\ dir_payload(ico_file.bytes, k) = ico_images[k][2]
    /\ Len(ico_file.bytes)
         = IF Len(ico_images) = 0 THEN 6
           ELSE dir_offset(ico_file.bytes, Len(ico_images))
                  + Len(ico_images[Len(ico_images)][2])

\* two images with payloads of 300 and 4 bytes were written: the offsets
\* are 38 and 338 and the file is 342 bytes long
C2_Witness ==
  /\ pc = "written" /\ ico_raised = "none" /\ ico_file.exists
  /\ Len(ico_images) = 2
  /\ Len(ico_images[1][2]) = 300 /\ Len(ico_images[2][2]) = 4
  /\ dir_offset(ico_file.bytes, 1) = 38
  /\ dir_offset(ico_file.bytes, 2) = 338
  /\ Len(ico_file.bytes) = 342

\* C6: write_ico fails at the count field of the header exactly when there
\* are more than 65535 images; when it fails the path is left as it was,
\* absent; and with at most 65535 images the file it writes starts with
\* reserved 0, type 1 and the number of images as 16-bit little-endian
C6_TooManyImages ==
  (pc = "written") =>
    /\ (ico_raised = "header") <=> (Len(ico_images) > 65535)
    /\ (ico_raised # "none") => (~ico_file.exists /\ ico_file.bytes = <<>>)
    /\ (Len(ico_images) <= 65535 /\ ico_raised = "none") =>
         /\ ico_file.exists
         /\ le16_at(ico_file.bytes, 0) = 0
         /\ le16_at(ico_file.bytes, 2) = 1
         /\ le16_at(ico_file.bytes, 4) = Len(ico_images)

\* 65536 images were given: the header pack raised and nothing was written
C6_Witness ==
  /\ pc = "written"
  /\ Len(ico_images) = 65536
  /\ ico_raised = "header"
  /\ ~ico_file.exists
====
